---- MODULE Spec2Model ----
(***************************************************************************)
(* A model of experiments/dataset.py: the E5Data and Wiki1M datasets, their *)
(* load_data methods (templating, global ids, split merging, per-task       *)
(* shuffle, fixed-size batching with dropped remainders, batch shuffle,     *)
(* flattening), __len__, __getitem__ and the load_dataset entry point.      *)
(*                                                                          *)
(* Python strings are sequences: a task name is a sequence of characters    *)
(* (str.replace is computed on it), a text is a sequence of tokens.  A dict *)
(* is the sequence of its (key, value) entries in insertion order.  The     *)
(* module-level generator of `random` is a state machine with a hidden      *)
(* state; it is modelled as a linear congruential generator over            *)
(* 0..RngMod-1, and random.shuffle as the Fisher-Yates loop of the standard *)
(* library drawing from it.                                                 *)
(***************************************************************************)
EXTENDS Integers, Sequences, FiniteSets, TLC

\* ---------------------------------------------------------------- bounds
MaxSamples == 2
MaxBatch == 2
NegBatch == 1
RngMod == 8
MaxSeed == 1
IdxSlack == 1

\* --------------------------------------------------------------- strings
allnli == <<"a", "l", "l", "n", "l", "i">>
nq == <<"n", "q">>
quora_duplicates == <<"q", "u", "o", "r", "a", "_", "d", "u", "p", "l", "i", "c", "a", "t", "e", "s">>
split1 == <<"_", "s", "p", "l", "i", "t", "1">>
split2 == <<"_", "s", "p", "l", "i", "t", "2">>

\* str.replace(old, new): the non-overlapping occurrences of old, scanned from
\* the left, are replaced by new.
RECURSIVE Replace(_, _, _)
Replace(s, old, new) ==
    IF Len(s) < Len(old) THEN s
    ELSE IF SubSeq(s, 1, Len(old)) = old
         THEN new \o Replace(SubSeq(s, Len(old) + 1, Len(s)), old, new)
         ELSE <<Head(s)>> \o Replace(Tail(s), old, new)

\* str.strip() on a line of tokens: leading and trailing whitespace removed.
Whitespace == {" ", "\n"}

RECURSIVE LStrip(_)
LStrip(s) == IF s # <<>> /\ Head(s) \in Whitespace THEN LStrip(Tail(s)) ELSE s

RECURSIVE RStrip(_)
RStrip(s) ==
    IF s # <<>> /\ s[Len(s)] \in Whitespace THEN RStrip(SubSeq(s, 1, Len(s) - 1)) ELSE s

Strip(s) == RStrip(LStrip(s))

\* repr of small non-negative integers, for the raw texts of the files.
Digits == <<"0", "1", "2", "3", "4", "5", "6", "7", "8", "9">>

\* ------------------------------------------------------ the prompt table
\* An entry of E5_EMBEDDING_PROMPTS: its key and its value, a str (isStr) or a
\* list of two instructions.
PromptStr(name, s) == [name |-> name, isStr |-> TRUE, v |-> <<s>>]
PromptList(name, s0, s1) == [name |-> name, isStr |-> FALSE, v |-> <<s0, s1>>]

P_allnli ==
    PromptList(allnli,
               "Given a premise, retrieve a hypothesis that is entailed by the premise",
               "Retrieve semantically similar text")
P_nq == PromptStr(nq, "Given a question, retrieve Wikipedia passages that answer the question")
P_allnli_split1 ==
    PromptStr(allnli \o split1,
              "Given a premise, retrieve a hypothesis that is entailed by the premise")
P_allnli_split2 == PromptStr(allnli \o split2, "Retrieve semantically similar text")

\* The tables the model loads: a part of the table of the source, in its order,
\* and tables holding the split variants that lines 134-138 and 166-173 name.
Tables ==
    { <<P_allnli, P_nq>>,
      <<P_allnli_split1, P_allnli_split2>>,
      <<P_allnli_split1, P_nq, P_allnli_split2>> }

\* The task variants whose positive and negative are templated too.
SymmetricTasks == { allnli \o split2, quora_duplicates \o split1, quora_duplicates \o split2 }

DefaultSeparator == <<"!@#$%^&*()">>

\* f"{value}": a str as it is, a list by its repr.
Format(p) == IF p.isStr THEN p.v ELSE <<"['", p.v[1], "', '", p.v[2], "']">>

\* ------------------------------------------------------------------ dict
DictKeys(m) == [k \in 1..Len(m) |-> m[k].key]
DictHas(m, key) == \E k \in 1..Len(m) : m[k].key = key
DictIndex(m, key) == CHOOSE k \in 1..Len(m) : m[k].key = key
DictGet(m, key) == m[DictIndex(m, key)].val
\* if key not in m: m[key] = []
DictSetDefault(m, key) == IF DictHas(m, key) THEN m ELSE Append(m, [key |-> key, val |-> <<>>])
\* m[key] += ids
DictExtend(m, key, ids) ==
    [m EXCEPT ![DictIndex(m, key)].val = m[DictIndex(m, key)].val \o ids]

\* ---------------------------------------------------------------- random
\* One step of the generator.
RngStep(r) == (5 * r + 3) % RngMod
\* randbelow(n) on the generator's state after the step.
Randbelow(r, n) == r % n
\* random.seed(s)
SeedState(s) == s % RngMod

Swap(x, i, j) == [x EXCEPT ![i] = x[j], ![j] = x[i]]

\* for i in reversed(range(1, len(x))): j = randbelow(i + 1); x[i], x[j] = x[j], x[i]
RECURSIVE ShuffleFrom(_, _, _)
ShuffleFrom(x, i, r) ==
    IF i < 1 THEN [x |-> x, rng |-> r]
    ELSE LET r2 == RngStep(r)
             j == Randbelow(r2, i + 1)
         IN ShuffleFrom(Swap(x, i + 1, j + 1), i - 1, r2)

\* random.shuffle(x): the shuffled list and the generator's state after it.
Shuffle(x, r) == ShuffleFrom(x, Len(x) - 1, r)

\* ------------------------------------------------------------- the files
\* The text of field f ("query", "positive", "negative") in line i (from 0) of
\* the file of the d-th task of the table.
RawText(f, d, i) == <<f, Digits[d + 1], Digits[i + 1]>>
\* Line i (from 0) of the Wiki1M text file, as read: with its line break.
WikiLine(i) == <<" ", "wiki", Digits[i + 1], "\n">>

VARIABLES
    prompts,    \* E5_EMBEDDING_PROMPTS
    files,      \* files[d]: the number of lines of the file of task d
    rng,        \* the state of the generator of the random module
    seeded,     \* the argument of the last random.seed call, NoSeed before any
    fresh,      \* TRUE when nothing has drawn from the generator since that call
    pc,         \* "start", "constructed" or "failed"
    obj,        \* the dataset object
    locals,     \* the locals of the last load_data call, at its end
    ret,        \* the outcome of the last call
    again       \* TRUE when the last construction repeated the one before it:
                \* the same arguments, each right after random.seed of the same seed

vars == <<prompts, files, rng, seeded, fresh, pc, obj, locals, ret, again>>

NoSeed == 0 - 1

\* ------------------------------------------------- E5Data.load_data, 115-164
\* instruction (lines 128-132)
Instruction(p, i) == IF p.isStr THEN p.v[1] ELSE p.v[(i % 2) + 1]

\* query (line 133)
QueryText(p, d, i, separator) ==
    <<Instruction(p, i), "; ">> \o separator \o RawText("query", d, i)

\* A template that leaves the separator out of the bare positive and negative.
PairTextBare(p, f, d, i, separator) ==
    IF p.name \in SymmetricTasks
    THEN Format(p) \o <<"; ">> \o separator \o RawText(f, d, i)
    ELSE RawText(f, d, i)

\* pos and neg (lines 134-151), f being "positive" or "negative"
PairText(p, f, d, i, separator) ==
    IF p.name \in SymmetricTasks
    THEN Format(p) \o <<"; ">> \o separator \o RawText(f, d, i)
    ELSE separator \o RawText(f, d, i)

\* DataSample(id_=id_, query=query, positive=pos, negative=neg, task_name=dataset)
DataSample(p, d, i, separator, id_) ==
    [ id_ |-> id_,
      query |-> QueryText(p, d, i, separator),
      positive |-> PairText(p, "positive", d, i, separator),
      negative |-> PairText(p, "negative", d, i, separator),
      task_name |-> p.name ]

\* Ids that restart in every file.
NextIdPerTask(id_, i) == i + 1

\* id_ += 1 (line 164)
NextId(id_, i) == id_ + 1

\* The body of the loop over the samples of one file (lines 127-164), from line i
\* on; st holds data_map, all_samples and id_.
RECURSIVE ReadSamples(_, _, _, _, _, _)
ReadSamples(p, d, i, n, separator, st) ==
    IF i >= n THEN st
    ELSE ReadSamples(p, d, i + 1, n, separator,
            [ data_map |-> DictExtend(st.data_map, p.name, <<st.id_>>),
              all_samples |-> Append(st.all_samples,
                                     DataSample(p, d, i, separator, st.id_)),
              id_ |-> NextId(st.id_, i) ])

\* The loop over the table (lines 118-164), from task d on.
RECURSIVE ReadTasks(_, _, _, _, _)
ReadTasks(table, d, sizes, separator, st) ==
    IF d > Len(table) THEN st
    ELSE ReadTasks(table, d + 1, sizes, separator,
            ReadSamples(table[d], d, 0, sizes[d], separator,
                        [st EXCEPT !.data_map = DictSetDefault(st.data_map, table[d].name)]))

ReadAll(table, sizes, separator) ==
    ReadTasks(table, 1, sizes, separator,
              [data_map |-> <<>>, all_samples |-> <<>>, id_ |-> 0])

\* ------------------------------------------------- combine splits, 166-173
\* A merge that forgets the second suffix.
NewDatasetFirstOnly(dataset) == Replace(dataset, split1, <<>>)

\* dataset.replace("_split1", "").replace("_split2", "")
NewDataset(dataset) == Replace(Replace(dataset, split1, <<>>), split2, <<>>)

\* new_data_map[new_dataset] += data_map[dataset] (line 172)
MergeInto(new_data_map, new_dataset, ids) ==
    DictExtend(DictSetDefault(new_data_map, new_dataset), new_dataset, ids)

RECURSIVE CombineFrom(_, _, _)
CombineFrom(data_map, k, new_data_map) ==
    IF k > Len(data_map) THEN new_data_map
    ELSE CombineFrom(data_map, k + 1,
                     MergeInto(new_data_map, NewDataset(data_map[k].key), data_map[k].val))

Combine(data_map) == CombineFrom(data_map, 1, <<>>)

\* ------------------------------------------- shuffle each dataset, 175-177
RECURSIVE ShuffleEach(_, _, _)
ShuffleEach(data_map, k, r) ==
    IF k > Len(data_map) THEN [data_map |-> data_map, rng |-> r]
    ELSE LET sh == Shuffle(data_map[k].val, r)
         IN ShuffleEach([data_map EXCEPT ![k].val = sh.x], k + 1, sh.rng)

\* ---------------------------------------------------- batching, 184-193
\* range(start, stop, step) for step # 0
RECURSIVE PyRange(_, _, _)
PyRange(start, stop, step) ==
    IF (step > 0 /\ start < stop) \/ (step < 0 /\ start > stop)
    THEN <<start>> \o PyRange(start + step, stop, step)
    ELSE <<>>

Min(a, b) == IF a < b THEN a ELSE b

\* s[lo : hi] for 0 <= lo <= hi
PySlice(s, lo, hi) == SubSeq(s, lo + 1, Min(hi, Len(s)))

\* A planner that keeps the short last batch of a dataset.
KeepBatchAll(batch, effective_batch_size) == TRUE

\* if len(batch) == self.effective_batch_size (line 189)
KeepBatch(batch, effective_batch_size) == Len(batch) = effective_batch_size

\* A planner whose range lacks its step: a window starts at every position.
BatchesOfUnitStep(dataset_samples, effective_batch_size) ==
    LET starts == PyRange(0, Len(dataset_samples), IF effective_batch_size = 0 THEN 0 ELSE 1)
        cut == [k \in 1..Len(starts) |->
                   PySlice(dataset_samples, starts[k], starts[k] + effective_batch_size)]
    IN SelectSeq(cut, LAMBDA batch : Len(batch) = effective_batch_size)

\* The batches of one dataset (lines 187-192).
BatchesOf(dataset_samples, effective_batch_size) ==
    LET starts == PyRange(0, Len(dataset_samples), effective_batch_size)
        cut == [k \in 1..Len(starts) |->
                   PySlice(dataset_samples, starts[k], starts[k] + effective_batch_size)]
    IN SelectSeq(cut, LAMBDA batch : KeepBatch(batch, effective_batch_size))

RECURSIVE BatchesFrom(_, _, _)
BatchesFrom(data_map, k, effective_batch_size) ==
    IF k > Len(data_map) THEN <<>>
    ELSE BatchesOf(data_map[k].val, effective_batch_size)
         \o BatchesFrom(data_map, k + 1, effective_batch_size)

\* ------------------------------------------------------ flatten, 195-200
RECURSIVE Flatten(_)
Flatten(all_batches) ==
    IF all_batches = <<>> THEN <<>> ELSE Head(all_batches) \o Flatten(Tail(all_batches))

\* self.data = [all_samples[idx] for idx in final_idx_order]
Gather(all_samples, final_idx_order) ==
    [k \in 1..Len(final_idx_order) |-> all_samples[final_idx_order[k] + 1]]

\* ------------------------------------------------------ E5Data.load_data
\* Lines 195-201: the locals at the end of load_data, the generator's state
\* after it, and the exception that left it.
LoadFlatten(read, new_data_map, sh, raised, shb) ==
    [ err |-> IF raised THEN "ValueError" ELSE "none",
      loaded |-> read.data_map,
      combined |-> new_data_map,
      data_map |-> sh.data_map,
      all_samples |-> read.all_samples,
      all_batches |-> shb.x,
      final_idx_order |-> Flatten(shb.x),
      data |-> IF raised THEN <<>> ELSE Gather(read.all_samples, Flatten(shb.x)),
      rng |-> shb.rng ]

\* Lines 184-193: range() raises ValueError on a step of zero, at the first
\* dataset, after the datasets were shuffled.
LoadBatch(read, new_data_map, sh, effective_batch_size, raised) ==
    LoadFlatten(read, new_data_map, sh, raised,
                IF raised THEN [x |-> <<>>, rng |-> sh.rng]
                ELSE Shuffle(BatchesFrom(sh.data_map, 1, effective_batch_size), sh.rng))

\* Lines 175-179
LoadShuffle(read, new_data_map, effective_batch_size, shuffle_individual_datasets, r) ==
    LoadBatch(read, new_data_map,
              IF shuffle_individual_datasets
              THEN ShuffleEach(new_data_map, 1, r)
              ELSE [data_map |-> new_data_map, rng |-> r],
              effective_batch_size,
              Len(new_data_map) > 0 /\ effective_batch_size = 0)

\* Lines 166-173
LoadCombine(read, effective_batch_size, shuffle_individual_datasets, r) ==
    LoadShuffle(read, Combine(read.data_map), effective_batch_size,
                shuffle_individual_datasets, r)

E5LoadData(table, sizes, effective_batch_size, shuffle_individual_datasets, separator, r) ==
    LoadCombine(ReadAll(table, sizes, separator), effective_batch_size,
                shuffle_individual_datasets, r)

\* ------------------------------------------------------ Wiki1M.load_data
\* DataSample(id_=id_, query=line, positive=line): negative and task_name None.
NoneText == <<"None">>

RECURSIVE WikiLoadFrom(_, _, _)
WikiLoadFrom(i, n, data) ==
    IF i >= n THEN data
    ELSE WikiLoadFrom(i + 1, n,
            Append(data, [ id_ |-> i,
                           query |-> Strip(WikiLine(i)),
                           positive |-> Strip(WikiLine(i)),
                           negative |-> NoneText,
                           task_name |-> NoneText ]))

WikiLoadData(n) == WikiLoadFrom(0, n, <<>>)

\* ------------------------------------------------------------ the objects
NoObj ==
    [ cls |-> "none", split |-> "none", effective_batch_size |-> 0,
      shuffle_individual_datasets |-> FALSE, separator |-> <<>>, data |-> <<>>,
      seedAt |-> NoSeed, freshAt |-> FALSE ]

NoLocals ==
    [ self |-> NoObj, err |-> "none", loaded |-> <<>>, combined |-> <<>>,
      data_map |-> <<>>, all_samples |-> <<>>, all_batches |-> <<>>,
      final_idx_order |-> <<>>, lines |-> 0, rng0 |-> 0 ]

NoRet ==
    [ call |-> "none", kind |-> "none", index |-> 0, guid |-> <<>>, texts |-> <<>>,
      label |-> "none", value |-> 0 ]

Raise(call, exception) == [NoRet EXCEPT !.call = call, !.kind = exception]

DatasetNames == {"E5", "Wiki1M", "Echo"}
Splits == {"train", "validation", "test", "dev"}
\* load_dataset's checks (lines 266-270)
SupportedName(dataset_name) == dataset_name \in {"E5", "Wiki1M"}
SupportedSplit(split) == split \in {"train", "validation", "test"}

BatchSizes == (0 - NegBatch)..MaxBatch
Separators == {DefaultSeparator}

\* ------------------------------------------------ __len__ and __getitem__
\* An index check that refuses the negative indices.
InRangeStrict(n, index) == 0 <= index /\ index < n

\* self.data[index]: a list accepts -len(data) <= index < len(data)
InRange(n, index) == (0 - n) <= index /\ index < n
\* the position (from 1) a valid index reads
Position(n, index) == IF index >= 0 THEN index + 1 ELSE n + index + 1

\* TrainSample(texts=[...], label=1.0): guid is "" (lines 30-46)
TrainSample(call, index, texts) ==
    [ call |-> call, kind |-> "TrainSample", index |-> index, guid |-> <<>>,
      texts |-> texts, label |-> "1.0", value |-> 0 ]

\* The outcome of E5Data.__getitem__ (lines 203-210).
E5GetitemRet(self, index) ==
    IF ~InRange(Len(self.data), index)
    THEN [Raise("getitem", "IndexError") EXCEPT !.index = index]
    ELSE LET sample == self.data[Position(Len(self.data), index)]
         IN IF self.split = "train"
            THEN TrainSample("getitem", index,
                             <<sample.query, sample.positive, sample.negative>>)
            ELSE IF self.split = "validation"
            THEN [Raise("getitem", "AssertionError") EXCEPT !.index = index]
            ELSE [Raise("getitem", "None") EXCEPT !.index = index]

\* An access that consumes the sample it reads: self.data.pop(index).
E5GetitemPop(self, index) ==
    [ self |-> IF InRange(Len(self.data), index)
               THEN [self EXCEPT !.data =
                        SubSeq(self.data, 1, Position(Len(self.data), index) - 1)
                        \o SubSeq(self.data, Position(Len(self.data), index) + 1,
                                  Len(self.data))]
               ELSE self,
      ret |-> E5GetitemRet(self, index) ]

\* E5Data.__getitem__ (lines 203-210): self after the call, and its outcome.
E5Getitem(self, index) == [self |-> self, ret |-> E5GetitemRet(self, index)]

\* Wiki1M.__getitem__ (lines 244-249)
WikiGetitem(self, index) ==
    [ self |-> self,
      ret |-> IF ~InRange(Len(self.data), index)
              THEN [Raise("getitem", "IndexError") EXCEPT !.index = index]
              ELSE LET sample == self.data[Position(Len(self.data), index)]
                   IN IF self.split = "train"
                      THEN TrainSample("getitem", index, <<sample.query, sample.positive>>)
                      ELSE IF self.split = "validation"
                      THEN [Raise("getitem", "AssertionError") EXCEPT !.index = index]
                      ELSE [Raise("getitem", "None") EXCEPT !.index = index] ]

\* __len__ (lines 108-109, 225-226)
LenOf(self) == [self |-> self, ret |-> [NoRet EXCEPT !.call = "len", !.kind = "int",
                                                     !.value = Len(self.data)]]

\* ------------------------------------------------------------------ state
Init ==
    /\ prompts \in Tables
    /\ files \in [1..Len(prompts) -> 0..MaxSamples]
    /\ rng \in 0..(RngMod - 1)
    /\ seeded = NoSeed
    /\ fresh = FALSE
    /\ pc = "start"
    /\ obj = NoObj
    /\ locals = NoLocals
    /\ ret = NoRet
    /\ again = FALSE

\* A generator of the dataset's own, which random.seed does not reset.
GeneratorPrivate == (locals.rng0 + 1) % RngMod

\* The generator random.shuffle draws from: the one of the random module.
Generator == rng

\* E5Data(split=..., file_path=..., effective_batch_size=..., ...): __init__
\* (lines 90-106) with its load_data.  An exception leaves no object.
E5Data_init(split, effective_batch_size, shuffle_individual_datasets, separator) ==
    \E self \in {[ cls |-> "E5Data", split |-> split,
                   effective_batch_size |-> effective_batch_size,
                   shuffle_individual_datasets |-> shuffle_individual_datasets,
                   separator |-> separator, data |-> <<>>,
                   seedAt |-> seeded, freshAt |-> fresh ]},
       ld \in {E5LoadData(prompts, files, effective_batch_size,
                          shuffle_individual_datasets, separator, Generator)} :
       /\ rng' = ld.rng
       /\ fresh' = FALSE
       /\ locals' = [ self |-> IF ld.err = "none" THEN [self EXCEPT !.data = ld.data]
                               ELSE self,
                      err |-> ld.err, loaded |-> ld.loaded, combined |-> ld.combined,
                      data_map |-> ld.data_map, all_samples |-> ld.all_samples,
                      all_batches |-> ld.all_batches,
                      final_idx_order |-> ld.final_idx_order, lines |-> 0,
                      rng0 |-> Generator ]
       /\ IF ld.err = "none"
          THEN /\ obj' = [self EXCEPT !.data = ld.data]
               /\ pc' = "constructed"
               /\ ret' = [NoRet EXCEPT !.call = "E5Data", !.kind = "E5Data"]
          ELSE /\ obj' = obj
               /\ pc' = IF pc = "start" THEN "failed" ELSE pc
               /\ ret' = Raise("E5Data", ld.err)
       /\ again' = /\ obj.cls = "E5Data"
                   /\ obj.split = split
                   /\ obj.effective_batch_size = effective_batch_size
                   /\ obj.shuffle_individual_datasets = shuffle_individual_datasets
                   /\ obj.separator = separator
                   /\ obj.freshAt /\ fresh /\ obj.seedAt = seeded
                   /\ ld.err = "none"
       /\ UNCHANGED <<prompts, files, seeded>>

\* Wiki1M(split=..., file_path=...): __init__ (lines 214-223) with its load_data
\* on a file of n lines.
Wiki1M_init(split, n) ==
    LET self == [NoObj EXCEPT !.cls = "Wiki1M", !.split = split,
                              !.data = WikiLoadData(n)]
    IN /\ obj' = self
       /\ locals' = [NoLocals EXCEPT !.self = self, !.lines = n, !.rng0 = rng]
       /\ pc' = "constructed"
       /\ ret' = [NoRet EXCEPT !.call = "Wiki1M", !.kind = "Wiki1M"]
       /\ again' = FALSE
       /\ UNCHANGED <<prompts, files, rng, seeded, fresh>>

\* load_dataset (lines 252-272) with an unsupported name or split
LoadDatasetUnsupported ==
    /\ pc = "start"
    /\ \E dataset_name \in DatasetNames, split \in Splits :
          /\ ~SupportedName(dataset_name) \/ ~SupportedSplit(split)
          /\ ret' = Raise("load_dataset", "NotImplementedError")
    /\ pc' = "failed"
    /\ UNCHANGED <<prompts, files, rng, seeded, fresh, obj, locals, again>>

\* load_dataset("E5", split, file_path, **kwargs)
LoadDatasetE5 ==
    /\ pc = "start"
    /\ \E split \in Splits, effective_batch_size \in BatchSizes,
          shuffle_individual_datasets \in BOOLEAN, separator \in Separators :
          /\ SupportedSplit(split)
          /\ E5Data_init(split, effective_batch_size, shuffle_individual_datasets,
                         separator)

\* load_dataset("Wiki1M", split, file_path)
LoadDatasetWiki1M ==
    /\ pc = "start"
    /\ \E split \in Splits, n \in 0..MaxSamples :
          /\ SupportedSplit(split)
          /\ Wiki1M_init(split, n)

\* dataset[index]
Getitem ==
    /\ pc = "constructed"
    /\ \E index \in (0 - Len(obj.data) - IdxSlack)..(Len(obj.data) + IdxSlack) :
          \E r \in {IF obj.cls = "E5Data" THEN E5Getitem(obj, index)
                    ELSE WikiGetitem(obj, index)} :
             /\ obj' = r.self
             /\ ret' = r.ret
    /\ UNCHANGED <<prompts, files, rng, seeded, fresh, pc, locals, again>>

\* len(dataset)
LenCall ==
    /\ pc = "constructed"
    /\ \E r \in {LenOf(obj)} :
          /\ obj' = r.self
          /\ ret' = r.ret
    /\ UNCHANGED <<prompts, files, rng, seeded, fresh, pc, locals, again>>

Next ==
    \/ LoadDatasetUnsupported
    \/ LoadDatasetE5
    \/ LoadDatasetWiki1M
    \/ Getitem
    \/ LenCall

Spec == Init /\ [][Next]_vars

\* The constructions alone, over every table and every directory.
NextLoad ==
    \/ LoadDatasetUnsupported
    \/ LoadDatasetE5
    \/ LoadDatasetWiki1M

SpecLoad == Init /\ [][NextLoad]_vars

\* Constructions and accesses, over the directories of the source's own tasks.
InitAccess == Init /\ prompts = <<P_allnli, P_nq>>

SpecAccess == InitAccess /\ [][Next]_vars

\* ------------------------------------------- constructions under a seed
\* random.seed(s)
RandomSeed ==
    /\ \E s \in 0..MaxSeed :
          /\ rng' = SeedState(s)
          /\ seeded' = s
    /\ fresh' = TRUE
    /\ UNCHANGED <<prompts, files, pc, obj, locals, ret, again>>

\* E5Data(split="train", ...), any number of times in one process
Construct ==
    \E effective_batch_size \in 1..MaxBatch, shuffle_individual_datasets \in BOOLEAN :
        E5Data_init("train", effective_batch_size, shuffle_individual_datasets,
                    DefaultSeparator)

NextReseed == RandomSeed \/ Construct

SpecReseed == Init /\ [][NextReseed]_vars

\* ------------------------------------------------ what the claims speak of
EndsWith(s, suffix) ==
    Len(s) >= Len(suffix) /\ SubSeq(s, Len(s) - Len(suffix) + 1, Len(s)) = suffix

\* A task name with its suffix "_split1" or "_split2" stripped.
StripSuffix(name) ==
    IF EndsWith(name, split1) THEN SubSeq(name, 1, Len(name) - Len(split1))
    ELSE IF EndsWith(name, split2) THEN SubSeq(name, 1, Len(name) - Len(split2))
    ELSE name

RECURSIVE LinesBefore(_)
LinesBefore(d) == IF d <= 1 THEN 0 ELSE files[d - 1] + LinesBefore(d - 1)

\* The number of records the files hold.
TotalLines == LinesBefore(Len(prompts) + 1)

\* The task, and the line of its file, that the record loaded n-th (from 0) is.
TaskAt(n) == CHOOSE d \in 1..Len(prompts) : LinesBefore(d) <= n /\ n < LinesBefore(d) + files[d]
LineAt(n) == n - LinesBefore(TaskAt(n))

\* The size of the canonical bucket named c: the lines of its variants' files.
RECURSIVE BucketSizeFrom(_, _)
BucketSizeFrom(c, d) ==
    IF d > Len(prompts) THEN 0
    ELSE (IF StripSuffix(prompts[d].name) = c THEN files[d] ELSE 0) + BucketSizeFrom(c, d + 1)

CanonicalNames == { StripSuffix(prompts[d].name) : d \in 1..Len(prompts) }

RECURSIVE FullBatchIds(_, _)
FullBatchIds(names, batch_size) ==
    IF names = {} THEN 0
    ELSE LET c == CHOOSE x \in names : TRUE
         IN batch_size * (BucketSizeFrom(c, 1) \div batch_size)
            + FullBatchIds(names \ {c}, batch_size)

\* The id lists of the variants of c among the loaded buckets, concatenated in
\* the order the variants were loaded.
RECURSIVE VariantsFrom(_, _, _)
VariantsFrom(loaded, c, k) ==
    IF k > Len(loaded) THEN <<>>
    ELSE (IF StripSuffix(loaded[k].key) = c THEN loaded[k].val ELSE <<>>)
         \o VariantsFrom(loaded, c, k + 1)

\* The places an id holds in the buckets of a map.
PlacesOf(m, id) == { <<k, j>> \in (1..Len(m)) \X (0..TotalLines) :
                        j \in 1..Len(m[k].val) /\ m[k].val[j] = id }

IdsOf(data) == [k \in 1..Len(data) |-> data[k].id_]

\* text is an optional instruction prefix of task p, then separator, then raw.
Templated(text, p, separator, raw) ==
    \E prefix \in {<<>>, <<p.v[1], "; ">>, <<p.v[Len(p.v)], "; ">>, Format(p) \o <<"; ">>} :
        text = prefix \o separator \o raw

E5Built == pc = "constructed" /\ obj.cls = "E5Data"
E5Read == locals.self.cls = "E5Data"

\* C1 (homogeneity): in a built E5 dataset with batch size >= 1, every window
\* data[i : i+batch_size] that starts at a multiple of the batch size and fits in
\* the data holds records of one canonical task bucket only.
C1_Homogeneity ==
    (E5Built /\ obj.effective_batch_size >= 1) =>
        \A i \in 0..Len(obj.data) :
            (i % obj.effective_batch_size = 0 /\ i + obj.effective_batch_size <= Len(obj.data)) =>
                \E k \in 1..Len(locals.combined) :
                    \A a \in (i + 1)..(i + obj.effective_batch_size) :
                        /\ PlacesOf(locals.combined, obj.data[a].id_) # {}
                        /\ \A pl \in PlacesOf(locals.combined, obj.data[a].id_) : pl[1] = k

\* Two full windows of different buckets, one of them mixing the two split
\* variants of a task.
C1_Witness ==
    /\ E5Built /\ obj.effective_batch_size = 2 /\ Len(obj.data) >= 4
    /\ \E i \in {0, 2} :
          /\ obj.data[i + 1].task_name # obj.data[i + 2].task_name
          /\ StripSuffix(obj.data[i + 1].task_name) = StripSuffix(obj.data[i + 2].task_name)
    /\ StripSuffix(obj.data[1].task_name) # StripSuffix(obj.data[3].task_name)

\* C2 (conservation): in a built E5 dataset with batch size >= 1 every id of the
\* data is the id of a loaded record, none appears twice, their number is the
\* sum over the canonical buckets of batch_size * floor(|bucket| / batch_size),
\* and so the length is a multiple of the batch size.
C2_Conservation ==
    (E5Built /\ obj.effective_batch_size >= 1) =>
        /\ \A p \in 1..Len(obj.data) :
              /\ obj.data[p].id_ \in 0..(TotalLines - 1)
              /\ obj.data[p] = locals.all_samples[obj.data[p].id_ + 1]
        /\ \A p, q \in 1..Len(obj.data) : obj.data[p].id_ = obj.data[q].id_ => p = q
        /\ Len(obj.data) = FullBatchIds(CanonicalNames, obj.effective_batch_size)
        /\ Len(obj.data) % obj.effective_batch_size = 0

\* A merged bucket of three ids of which batch size 2 keeps two, beside a bucket
\* that is dropped whole.
C2_Witness ==
    /\ E5Built /\ obj.effective_batch_size = 2
    /\ Len(obj.data) = 2 /\ TotalLines = 4
    /\ \E k \in 1..Len(locals.combined) : Len(locals.combined[k].val) = 3

\* C3 (invalid batch size): a construction with batch size <= 0 fails with an
\* error and leaves no dataset.
C3_InvalidBatchSizeFails ==
    (E5Read /\ locals.self.effective_batch_size <= 0) =>
        (locals.err # "none" /\ pc = "failed" /\ obj = NoObj)

\* C4 (split restriction), on the indices the dataset holds: on a dataset of a
\* split other than "train", at(index) with 0 <= index < length() fails with the
\* unsupported-split error and returns nothing.
C4_SplitRestriction ==
    (pc = "constructed" /\ obj.split # "train" /\ ret.call = "getitem"
        /\ 0 <= ret.index /\ ret.index < Len(obj.data)) =>
        ret.kind = "AssertionError"

\* C5 (out-of-range access) as claimed: at(index) returns a training tuple only
\* for 0 <= index < length(), and fails with the index error for every other
\* index.
C5_OnlyNonNegativeInRange ==
    ret.call = "getitem" =>
        /\ ret.kind = "TrainSample" => (0 <= ret.index /\ ret.index < Len(obj.data))
        /\ ~(0 <= ret.index /\ ret.index < Len(obj.data)) => ret.kind = "IndexError"

\* C5 as amended: at(index) fails with the index error exactly when
\* index >= length() or index < -length(); an index -length() <= index < 0
\* reads the position length() + index, and a training tuple is returned only
\* for an index in that range, on a train dataset.
C5_IndexErrorOutsideListRange ==
    ret.call = "getitem" =>
        /\ ret.kind = "IndexError" <=>
              (ret.index >= Len(obj.data) \/ ret.index < 0 - Len(obj.data))
        /\ ret.kind = "TrainSample" =>
              /\ obj.split = "train"
              /\ 0 - Len(obj.data) <= ret.index /\ ret.index < Len(obj.data)
              /\ LET sample == obj.data[(ret.index % Len(obj.data)) + 1]
                 IN /\ ret.texts[1] = sample.query
                    /\ ret.texts[2] = sample.positive

\* at(-1) on a train dataset returned the last record; at(length()) failed.
C5_Witness ==
    /\ ret.call = "getitem" /\ ret.kind = "TrainSample" /\ ret.index = 0 - 1
    /\ Len(obj.data) >= 2
    /\ ret.texts[1] = obj.data[Len(obj.data)].query

C7_ReadOnly ==
    [][pc = "constructed" =>
          /\ obj' = obj
          /\ ret'.call = "len" => ret'.value = Len(obj.data)
          /\ ret'.kind = "TrainSample" =>
                LET sample == obj.data[(ret'.index % Len(obj.data)) + 1]
                IN ret'.texts = IF obj.cls = "E5Data"
                                THEN <<sample.query, sample.positive, sample.negative>>
                                ELSE <<sample.query, sample.positive>>]_vars

\* A tuple was returned from an E5 dataset of several records.
C7_Witness ==
    /\ E5Built /\ Len(obj.data) >= 2
    /\ ret.call = "getitem" /\ ret.kind = "TrainSample" /\ ret.index = 1

SameArguments(a, b) ==
    /\ a.cls = "E5Data" /\ b.cls = "E5Data"
    /\ a.split = b.split
    /\ a.effective_batch_size = b.effective_batch_size
    /\ a.shuffle_individual_datasets = b.shuffle_individual_datasets
    /\ a.separator = b.separator

\* C8 (determinism under a seed) as claimed: a construction that follows
\* another in the same process, with the same arguments and under the same
\* seed, has the same epoch order.
C8_SameSeedSameOrder ==
    [][(SameArguments(obj, obj') /\ obj.seedAt # NoSeed /\ obj'.seedAt = obj.seedAt)
          => IdsOf(obj'.data) = IdsOf(obj.data)]_vars

\* C8 as amended: two constructions with the same arguments, each made right
\* after random.seed of the same seed, have the same epoch order.
C8_ReseededSameOrder ==
    [][(SameArguments(obj, obj') /\ obj.seedAt # NoSeed /\ obj'.seedAt = obj.seedAt
            /\ obj.freshAt /\ obj'.freshAt)
          => IdsOf(obj'.data) = IdsOf(obj.data)]_vars

\* A reseeded repetition of a construction whose shuffles moved records.
C8_Witness ==
    /\ again /\ obj.shuffle_individual_datasets /\ Len(obj.data) >= 3
    /\ \E p \in 1..(Len(obj.data) - 1) : obj.data[p].id_ > obj.data[p + 1].id_

E5RecordTemplated(rec) ==
    LET d == TaskAt(rec.id_)
        i == LineAt(rec.id_)
    IN /\ Templated(rec.query, prompts[d], obj.separator, RawText("query", d, i))
       /\ Templated(rec.positive, prompts[d], obj.separator, RawText("positive", d, i))
       /\ Templated(rec.negative, prompts[d], obj.separator, RawText("negative", d, i))

\* C9 (separator injection) as claimed: every record of a built dataset, E5 or
\* Wiki1M, holds its texts as an optional instruction prefix, the separator and
\* the raw text.
C9_EveryRecordSeparated ==
    pc = "constructed" =>
        \A p \in 1..Len(obj.data) :
            IF obj.cls = "E5Data" THEN E5RecordTemplated(obj.data[p])
            ELSE \E prefix \in {<<>>} :
                    /\ obj.data[p].query
                          = prefix \o DefaultSeparator \o Strip(WikiLine(obj.data[p].id_))
                    /\ obj.data[p].positive
                          = prefix \o DefaultSeparator \o Strip(WikiLine(obj.data[p].id_))

\* C9 as amended: every record of a built E5 dataset holds its query, positive
\* and negative as an optional instruction prefix, the separator and the raw
\* text; a Wiki1M record holds the stripped line as query and positive, with no
\* separator.
C9_E5RecordsSeparated ==
    pc = "constructed" =>
        \A p \in 1..Len(obj.data) :
            IF obj.cls = "E5Data" THEN E5RecordTemplated(obj.data[p])
            ELSE /\ obj.data[p].query = Strip(WikiLine(obj.data[p].id_))
                 /\ obj.data[p].positive = Strip(WikiLine(obj.data[p].id_))

\* An E5 dataset holding a record templated on the query alone and a record of
\* a symmetric task, templated on all three texts.
C9_Witness ==
    /\ E5Built
    /\ \E p, q \in 1..Len(obj.data) :
          /\ obj.data[p].task_name = allnli \o split2
          /\ obj.data[p].positive[1] # obj.separator[1]
          /\ obj.data[q].task_name = nq
          /\ obj.data[q].positive[1] = obj.separator[1]

\* C10 (global ids): the record loaded k-th has id k, whatever its task, carries
\* the name of the task whose file it came from and has its id appended to that
\* task's bucket; and the record at position p of the data has the id at
\* position p of the flattened batch order.
C10_GlobalIds ==
    E5Read =>
        /\ Len(locals.all_samples) = TotalLines
        /\ \A k \in 1..Len(locals.all_samples) :
              /\ locals.all_samples[k].id_ = k - 1
              /\ locals.all_samples[k].task_name = prompts[TaskAt(k - 1)].name
        /\ Len(locals.loaded) = Len(prompts)
        /\ \A d \in 1..Len(prompts) :
              /\ locals.loaded[d].key = prompts[d].name
              /\ locals.loaded[d].val = [i \in 1..files[d] |-> LinesBefore(d) + i - 1]
        /\ Len(locals.self.data) = Len(locals.final_idx_order)
        /\ \A p \in 1..Len(locals.self.data) :
              locals.self.data[p].id_ = locals.final_idx_order[p]

\* Three files with records each, loaded into a dataset whose order is not the
\* load order.
C10_Witness ==
    /\ E5Built /\ Len(prompts) = 3 /\ \A d \in 1..3 : files[d] >= 1
    /\ Len(obj.data) >= 3
    /\ \E p \in 1..(Len(obj.data) - 1) : obj.data[p].id_ > obj.data[p + 1].id_

====
